---- MODULE Spec2Model ----
(***************************************************************************)
(* Model of crates/swift-bridge-ir/src/parse/parse_struct.rs:              *)
(* SharedStructParser::parse and <StructAttr as Parse>::parse.             *)
(*                                                                         *)
(* An Option<T> is a sequence of length at most one: <<>> is None and      *)
(* <<v>> is Some(v).  A LitStr is modelled by its string value.            *)
(***************************************************************************)
EXTENDS Naturals, Sequences, FiniteSets

VARIABLES item_struct, errors, ret, pc, calls, errors_before, groups

vars == <<item_struct, errors, ret, pc, calls, errors_before, groups>>

(* ------------------------------ bounds --------------------------------- *)

\* Largest number of attributes on one struct.
MaxAttrs == 2

\* Largest number of fields of one struct.
MaxFields == 2

\* Largest number of structs parsed against one ParseErrors collector.
MaxDecls == 2

(* ------------------------------ inputs --------------------------------- *)

\* All sequences over S of length at most n.
BSeq(S, n) == UNION {[1..k -> S] : k \in 0..n}

\* Names of the structs of a module, in declaration order.
StructIdents == <<"Foo", "Bar", "Buzz", "Bazz">>

\* The ident of the k-th struct of the module (k counted from 0).
IdentAt(k) == StructIdents[(k % Len(StructIdents)) + 1]

\* Token streams of #[swift_bridge(key = value)] attributes.  val is the
\* string literal after the `=`, or None when the tokens there are not a
\* string literal.
RawAttrs ==
  {[key |-> "swift_repr", val |-> <<l>>] : l \in {"class", "struct", "an-invalid-value"}}
    \cup {[key |-> "swift_repr", val |-> <<>>]}
    \cup {[key |-> "swift_name", val |-> <<l>>] : l \in {"FfiFoo", "FfiBar"}}
    \cup {[key |-> "swift_nam", val |-> <<"FfiFoo">>]}

\* syn::Field of a braced struct: ident is Some.
NamedFieldPool == {[ident |-> <<"bar">>, ty |-> "u8"], [ident |-> <<"baz">>, ty |-> "u16"]}

\* syn::Field of a tuple struct: ident is None.
UnnamedFieldPool == {[ident |-> <<>>, ty |-> "u8"]}

\* syn::Fields: Named (possibly empty braces), Unnamed (possibly empty
\* parentheses) or Unit.
FieldsValues ==
  {[format |-> "Named", list |-> l] : l \in BSeq(NamedFieldPool, MaxFields)}
    \cup {[format |-> "Unnamed", list |-> l] : l \in BSeq(UnnamedFieldPool, MaxFields)}
    \cup {[format |-> "Unit", list |-> <<>>]}

\* syn::ItemStruct values the k-th struct of a module can be.
ItemStructs(k) ==
  {[ident |-> IdentAt(k), attrs |-> a, fields |-> f] :
     a \in BSeq(RawAttrs, MaxAttrs), f \in FieldsValues}

(* --------------------------- StructAttr::parse -------------------------- *)

\* <StructAttr as Parse>::parse.  The key ident and the `=` are present in
\* every RawAttrs value, so the two `?` of lines 30-31 never return early.
StructAttrParse(attr) ==
  CASE attr.key = "swift_repr" ->
         IF attr.val = <<>>
           THEN [tag |-> "SynErr"]
           ELSE LET repr == attr.val[1]
                IN CASE repr = "class" ->
                          [tag |-> "SwiftRepr", swift_repr |-> "Class", lit |-> repr]
                     [] repr = "struct" ->
                          [tag |-> "SwiftRepr", swift_repr |-> "Structure", lit |-> repr]
                     [] OTHER ->
                          [tag |-> "Error", err |-> "InvalidSwiftRepr", lit |-> repr]
    [] attr.key = "swift_name" ->
         IF attr.val = <<>>
           THEN [tag |-> "SynErr"]
           ELSE [tag |-> "SwiftName", lit |-> attr.val[1]]
    [] OTHER -> [tag |-> "Todo"]

(* ------------------------------ ParseErrors ----------------------------- *)

\* ParseErrors::push.
Push(errs, e) == Append(errs, e)

StructInvalidSwiftRepr(ident, val) ==
  [kind |-> "StructInvalidSwiftRepr", struct_ident |-> ident, swift_repr_attr_value |-> val]

EmptyStructHasSwiftReprClass(ident, val) ==
  [kind |-> "EmptyStructHasSwiftReprClass", struct_ident |-> ident, swift_repr_attr_value |-> val]

StructMissingSwiftRepr(ident) ==
  [kind |-> "StructMissingSwiftRepr", struct_ident |-> ident]

(* ------------------------ SharedStructParser::parse --------------------- *)

\* StructAttribs::default().
StructAttribsDefault == [swift_repr |-> <<>>, swift_name |-> <<>>]

\* Faulty variant of OnSwiftRepr: a swift_repr already set is kept.
OnSwiftRepr_FirstWins(st, a) ==
  IF st.attribs.swift_repr # <<>>
    THEN st
    ELSE [st EXCEPT !.attribs.swift_repr = <<[repr |-> a.swift_repr, lit |-> a.lit]>>]

\* Arm StructAttr::SwiftRepr of the match in the attribute loop.
OnSwiftRepr(st, a) ==
  [st EXCEPT !.attribs.swift_repr = <<[repr |-> a.swift_repr, lit |-> a.lit]>>]

\* Faulty variant of OnSwiftName: the attribs are rebuilt from the default
\* with only swift_name set.
OnSwiftName_ResetsRepr(st, a) ==
  [st EXCEPT !.attribs = [swift_repr |-> <<>>, swift_name |-> <<a.lit>>]]

\* Arm StructAttr::SwiftName of the match in the attribute loop.
OnSwiftName(st, a) ==
  [st EXCEPT !.attribs.swift_name = <<a.lit>>]

\* Faulty variant of OnInvalidSwiftRepr: attribs.swift_repr is not set.
OnInvalidSwiftRepr_LeavesUnset(st, ident, a) ==
  [st EXCEPT !.errors = Push(st.errors, StructInvalidSwiftRepr(ident, a.lit))]

\* Faulty variant of OnInvalidSwiftRepr: attribs.swift_repr is set to Class.
OnInvalidSwiftRepr_SetsClass(st, ident, a) ==
  [st EXCEPT !.errors = Push(st.errors, StructInvalidSwiftRepr(ident, a.lit)),
             !.attribs.swift_repr = <<[repr |-> "Class", lit |-> a.lit]>>]

\* Arm StructAttr::Error(InvalidSwiftRepr) of the match in the attribute loop.
OnInvalidSwiftRepr(st, ident, a) ==
  [st EXCEPT !.errors = Push(st.errors, StructInvalidSwiftRepr(ident, a.lit)),
             !.attribs.swift_repr = <<[repr |-> "Structure", lit |-> a.lit]>>]

\* One iteration of `for attr in item_struct.attrs`.  flow is "Run" while
\* the function is executing, "Err" after `?` returned a syn::Error and
\* "Panic" after todo!() panicked.
AttrStep(st, ident, attr) ==
  LET a == StructAttrParse(attr)
  IN CASE a.tag = "Todo" -> [st EXCEPT !.flow = "Panic"]
       [] a.tag = "SynErr" -> [st EXCEPT !.flow = "Err"]
       [] a.tag = "SwiftRepr" -> OnSwiftRepr(st, a)
       [] a.tag = "SwiftName" -> OnSwiftName(st, a)
       [] a.tag = "Error" -> OnInvalidSwiftRepr(st, ident, a)

RECURSIVE AttrLoop(_, _, _, _)
\* The attribute loop from its i-th iteration on.
AttrLoop(attrs, ident, i, st) ==
  IF i > Len(attrs) \/ st.flow # "Run"
    THEN st
    ELSE AttrLoop(attrs, ident, i + 1, AttrStep(st, ident, attrs[i]))

\* Faulty variant of EmptyFieldsRepr: a swift_repr that is set is used.
EmptyFieldsRepr_KeepsRequested(ident, attribs, errs) ==
  [swift_repr |-> IF attribs.swift_repr # <<>> THEN attribs.swift_repr[1].repr ELSE "Structure",
   errors |-> IF attribs.swift_repr # <<>> /\ attribs.swift_repr[1].repr = "Class"
                THEN Push(errs, EmptyStructHasSwiftReprClass(ident, attribs.swift_repr[1].lit))
                ELSE errs]

\* Faulty variant of EmptyFieldsRepr: nothing is pushed.
EmptyFieldsRepr_NoPush(ident, attribs, errs) ==
  [swift_repr |-> "Structure", errors |-> errs]

\* Branch `item_struct.fields.len() == 0` of `let swift_repr = ...`.
EmptyFieldsRepr(ident, attribs, errs) ==
  [swift_repr |-> "Structure",
   errors |-> IF attribs.swift_repr # <<>> /\ attribs.swift_repr[1].repr = "Class"
                THEN Push(errs, EmptyStructHasSwiftReprClass(ident, attribs.swift_repr[1].lit))
                ELSE errs]

\* Branch `else if let Some((swift_repr, _)) = attribs.swift_repr`.
ExplicitRepr(attribs, errs) ==
  [swift_repr |-> attribs.swift_repr[1].repr, errors |-> errs]

\* Faulty variant of MissingRepr: nothing is pushed.
MissingRepr_NoPush(ident, errs) ==
  [swift_repr |-> "Structure", errors |-> errs]

\* Faulty variant of MissingRepr: the error goes to a fresh collector.
MissingRepr_FreshCollector(ident, errs) ==
  [swift_repr |-> "Structure", errors |-> Push(<<>>, StructMissingSwiftRepr(ident))]

\* Final `else` branch of `let swift_repr = ...`.
MissingRepr(ident, errs) ==
  [swift_repr |-> "Structure", errors |-> Push(errs, StructMissingSwiftRepr(ident))]

\* `let swift_repr = if ... else if ... else ...`.
SwiftReprRule(item, attribs, errs) ==
  IF Len(item.fields.list) = 0
    THEN EmptyFieldsRepr(item.ident, attribs, errs)
    ELSE IF attribs.swift_repr # <<>>
           THEN ExplicitRepr(attribs, errs)
           ELSE MissingRepr(item.ident, errs)

\* `let fields_format = match &item_struct.fields`.
FieldsFormatOf(fields) ==
  CASE fields.format = "Named" -> "Named"
    [] fields.format = "Unnamed" -> "Unnamed"
    [] fields.format = "Unit" -> "Unit"

\* Faulty variant of StructFieldOf: the ident is not copied.
StructFieldOf_NoName(field) == [name |-> <<>>, ty |-> field.ty]

\* StructField { name: field.ident.clone(), ty: field.ty.clone() }.
StructFieldOf(field) == [name |-> field.ident, ty |-> field.ty]

RECURSIVE FieldLoop(_, _, _)
\* `for field in item_struct.fields.iter()` from its i-th iteration on;
\* acc is the vector `fields`.
FieldLoop(list, i, acc) ==
  IF i > Len(list)
    THEN acc
    ELSE FieldLoop(list, i + 1, Append(acc, StructFieldOf(list[i])))

\* SharedStructParser::parse(self) run against the collector errs: the
\* value returned (or the panic) and the collector afterwards.
Parse(item, errs) ==
  LET st == AttrLoop(item.attrs, item.ident, 1,
                     [flow |-> "Run", attribs |-> StructAttribsDefault, errors |-> errs])
  IN CASE st.flow = "Panic" -> [ret |-> [tag |-> "Panic", val |-> <<>>], errors |-> st.errors]
       [] st.flow = "Err" -> [ret |-> [tag |-> "Err", val |-> <<>>], errors |-> st.errors]
       [] OTHER ->
            LET r == SwiftReprRule(item, st.attribs, st.errors)
                shared_struct ==
                  [name |-> item.ident,
                   swift_repr |-> r.swift_repr,
                   fields |-> FieldLoop(item.fields.list, 1, <<>>),
                   swift_name |-> st.attribs.swift_name,
                   fields_format |-> FieldsFormatOf(item.fields)]
            IN [ret |-> [tag |-> "Ok", val |-> <<shared_struct>>], errors |-> r.errors]

(* ------------------------------ state machine --------------------------- *)

\* No parser exists yet and the collector is empty.
Init ==
  /\ item_struct = <<>>
  /\ errors = <<>>
  /\ ret = [tag |-> "None", val |-> <<>>]
  /\ pc = "idle"
  /\ calls = 0
  /\ errors_before = <<>>
  /\ groups = <<>>

\* SharedStructParser { item_struct, errors } is built for the next struct
\* of the module.
NewSharedStructParser ==
  /\ pc = "idle"
  /\ calls < MaxDecls
  /\ \E item \in ItemStructs(calls) : item_struct' = <<item>>
  /\ pc' = "constructed"
  /\ calls' = calls + 1
  /\ UNCHANGED <<errors, ret, errors_before, groups>>

\* parse(self) runs to its return or to its panic.  item_struct keeps the
\* struct that was parsed, and groups gets what this struct pushes when it
\* is parsed against an empty collector.
parse ==
  /\ pc = "constructed"
  /\ LET out == Parse(item_struct[1], errors)
     IN /\ errors' = out.errors
        /\ ret' = out.ret
        /\ pc' = IF out.ret.tag = "Panic" THEN "panicked" ELSE "returned"
  /\ groups' = Append(groups, Parse(item_struct[1], <<>>).errors)
  /\ UNCHANGED <<item_struct, calls, errors_before>>

\* The Result has been moved to the caller and the parser, taken by value
\* by parse(self), is gone; the collector lives on.
ReturnToCaller ==
  /\ pc = "returned"
  /\ item_struct' = <<>>
  /\ ret' = [tag |-> "None", val |-> <<>>]
  /\ pc' = "idle"
  /\ errors_before' = errors
  /\ UNCHANGED <<errors, calls, groups>>

Next == NewSharedStructParser \/ parse \/ ReturnToCaller

Spec == Init /\ [][Next]_vars

(* --------------------------- vocabulary of the properties ---------------- *)

\* The struct handed to the parser that is running or has just finished.
Item == item_struct[1]

\* parse has run to its end: it returned or it panicked.
Finished == pc \in {"returned", "panicked"}

\* parse returned Ok(shared_struct).
Resolved == pc = "returned" /\ ret.tag = "Ok"

\* The SharedStruct returned.
Shared == ret.val[1]

\* What the last parse added to the collector.
Pushed == SubSeq(errors, Len(errors_before) + 1, Len(errors))

IsReprAttr(attr) == attr.key = "swift_repr" /\ attr.val # <<>>

IsNameAttr(attr) == attr.key = "swift_name" /\ attr.val # <<>>

\* The literals that name a representation, and the representation named.
ValidReprLits == {"class", "struct"}

Requested(lit) == IF lit = "class" THEN "Class" ELSE "Structure"

\* The swift_repr (swift_name) attributes of a struct, in source order.
ReprAttrs(item) == SelectSeq(item.attrs, IsReprAttr)

NameAttrs(item) == SelectSeq(item.attrs, IsNameAttr)

\* Every attribute is a swift_repr or a swift_name with a string literal.
OnlyReprAndName(item) ==
  \A i \in 1..Len(item.attrs) : IsReprAttr(item.attrs[i]) \/ IsNameAttr(item.attrs[i])

NoFields(item) == Len(item.fields.list) = 0

\* The kinds of the diagnostics in a sequence.
Kinds(es) == {es[i].kind : i \in 1..Len(es)}

IsPrefix(s, t) == Len(s) <= Len(t) /\ SubSeq(t, 1, Len(s)) = s

RECURSIVE Flatten(_)
Flatten(ss) == IF ss = <<>> THEN <<>> ELSE Head(ss) \o Flatten(Tail(ss))

(* ------------------------------- properties ----------------------------- *)

\* C1: a struct with zero fields (unit, empty braces or empty parentheses)
\* and any sequence of swift_repr / swift_name attributes parses to
\* swift_repr = Structure; with no attribute at all nothing is pushed.
C1_EmptyIsStructure ==
  (Finished /\ NoFields(Item) /\ OnlyReprAndName(Item))
    => /\ Resolved
       /\ Shared.swift_repr = "Structure"
       /\ (Item.attrs = <<>> => Pushed = <<>>)

C1_Witness ==
  /\ Resolved
  /\ Item.fields.format = "Named"
  /\ NoFields(Item)
  /\ \E i \in 1..Len(Item.attrs) : Item.attrs[i] = [key |-> "swift_repr", val |-> <<"class">>]
  /\ Shared.swift_repr = "Structure"

\* C2: a struct with at least one field and no swift_repr attribute (only
\* swift_name attributes, if any) pushes exactly one error,
\* StructMissingSwiftRepr with the struct's own ident, and parses to
\* swift_repr = Structure.
C2_MissingRepr ==
  (Finished /\ ~NoFields(Item) /\ OnlyReprAndName(Item) /\ ReprAttrs(Item) = <<>>)
    => /\ Resolved
       /\ Pushed = <<[kind |-> "StructMissingSwiftRepr", struct_ident |-> Item.ident]>>
       /\ Shared.swift_repr = "Structure"

C2_Witness ==
  /\ Resolved
  /\ ~NoFields(Item)
  /\ ReprAttrs(Item) = <<>>
  /\ NameAttrs(Item) # <<>>
  /\ errors_before # <<>>
  /\ Len(Pushed) = 1
  /\ Pushed[1].kind = "StructMissingSwiftRepr"

\* C3 as stated: a struct with at least one field that carries a swift_repr
\* attribute with literal "class" or "struct" parses to a representation
\* such an attribute requests, and nothing is pushed.
C3_AsStated ==
  (Finished /\ ~NoFields(Item) /\ OnlyReprAndName(Item)
     /\ \E i \in 1..Len(ReprAttrs(Item)) : ReprAttrs(Item)[i].val[1] \in ValidReprLits)
    => /\ Resolved
       /\ Pushed = <<>>
       /\ \E i \in 1..Len(ReprAttrs(Item)) :
            /\ ReprAttrs(Item)[i].val[1] \in ValidReprLits
            /\ Shared.swift_repr = Requested(ReprAttrs(Item)[i].val[1])

\* C3 amended: a struct with at least one field whose swift_repr attributes
\* (at least one) all have the literal "class" or "struct" parses to the
\* representation the last of them requests, and nothing is pushed.
C3_ExplicitRepr ==
  (Finished /\ ~NoFields(Item) /\ OnlyReprAndName(Item)
     /\ ReprAttrs(Item) # <<>>
     /\ \A i \in 1..Len(ReprAttrs(Item)) : ReprAttrs(Item)[i].val[1] \in ValidReprLits)
    => /\ Resolved
       /\ Pushed = <<>>
       /\ Shared.swift_repr = Requested(ReprAttrs(Item)[Len(ReprAttrs(Item))].val[1])

C3_Witness ==
  /\ Resolved
  /\ ~NoFields(Item)
  /\ Item.attrs = <<[key |-> "swift_repr", val |-> <<"struct">>],
                    [key |-> "swift_repr", val |-> <<"class">>]>>
  /\ Shared.swift_repr = "Class"
  /\ errors_before # <<>>
  /\ Pushed = <<>>

\* C4: a struct with at least one field whose only attribute is a swift_repr
\* with a literal other than "class" and "struct" pushes exactly one error,
\* StructInvalidSwiftRepr with the struct's ident and that literal, and
\* still parses, to swift_repr = Structure.
C4_InvalidRepr ==
  (Finished /\ ~NoFields(Item) /\ Len(Item.attrs) = 1 /\ IsReprAttr(Item.attrs[1])
     /\ Item.attrs[1].val[1] \notin ValidReprLits)
    => /\ Resolved
       /\ Pushed = <<[kind |-> "StructInvalidSwiftRepr",
                      struct_ident |-> Item.ident,
                      swift_repr_attr_value |-> Item.attrs[1].val[1]]>>
       /\ Shared.swift_repr = "Structure"

C4_Witness ==
  /\ Resolved
  /\ ~NoFields(Item)
  /\ Item.attrs = <<[key |-> "swift_repr", val |-> <<"an-invalid-value">>]>>
  /\ errors_before # <<>>
  /\ Len(Pushed) = 1
  /\ Pushed[1].kind = "StructInvalidSwiftRepr"

\* The last swift_repr attribute of the struct has a literal other than
\* "class" and "struct".
LastReprInvalid(item) ==
  /\ ReprAttrs(item) # <<>>
  /\ ReprAttrs(item)[Len(ReprAttrs(item))].val[1] \notin ValidReprLits

\* The StructInvalidSwiftRepr error of the last swift_repr attribute.
LastInvalidError(item) ==
  [kind |-> "StructInvalidSwiftRepr",
   struct_ident |-> item.ident,
   swift_repr_attr_value |-> ReprAttrs(item)[Len(ReprAttrs(item))].val[1]]

\* C5 as stated: after an invalid swift_repr literal the representation
\* counts as unset: StructInvalidSwiftRepr is pushed; with at least one
\* field StructMissingSwiftRepr is pushed after it and swift_repr is
\* Structure; with zero fields no EmptyStructHasSwiftReprClass is pushed.
C5_AsStated ==
  (Finished /\ OnlyReprAndName(Item) /\ LastReprInvalid(Item))
    => /\ Resolved
       /\ \E i \in 1..Len(Pushed) : Pushed[i] = LastInvalidError(Item)
       /\ (~NoFields(Item) =>
             /\ Pushed[Len(Pushed)] =
                  [kind |-> "StructMissingSwiftRepr", struct_ident |-> Item.ident]
             /\ Shared.swift_repr = "Structure")
       /\ (NoFields(Item) => "EmptyStructHasSwiftReprClass" \notin Kinds(Pushed))

\* C5 amended: when the last swift_repr attribute has an invalid literal,
\* StructInvalidSwiftRepr is pushed for it, as the last error of the struct,
\* and the representation counts as set to Structure: with at least one
\* field no StructMissingSwiftRepr is pushed and swift_repr is Structure;
\* with zero fields no EmptyStructHasSwiftReprClass is pushed.
C5_InvalidCountsAsStructure ==
  (Finished /\ OnlyReprAndName(Item) /\ LastReprInvalid(Item))
    => /\ Resolved
       /\ Pushed # <<>>
       /\ Pushed[Len(Pushed)] = LastInvalidError(Item)
       /\ Shared.swift_repr = "Structure"
       /\ "StructMissingSwiftRepr" \notin Kinds(Pushed)
       /\ "EmptyStructHasSwiftReprClass" \notin Kinds(Pushed)

C5_Witness ==
  /\ Resolved
  /\ ~NoFields(Item)
  /\ Item.attrs = <<[key |-> "swift_repr", val |-> <<"class">>],
                    [key |-> "swift_repr", val |-> <<"an-invalid-value">>]>>
  /\ Shared.swift_repr = "Structure"
  /\ Kinds(Pushed) = {"StructInvalidSwiftRepr"}

\* C6: a struct with zero fields whose swift_repr is "class" pushes exactly
\* one error, EmptyStructHasSwiftReprClass with the struct's own ident and
\* the literal "class", and still parses to swift_repr = Structure; one
\* whose swift_repr is "struct" pushes no EmptyStructHasSwiftReprClass.
C6_EmptyClass ==
  (Finished /\ NoFields(Item) /\ OnlyReprAndName(Item) /\ ReprAttrs(Item) # <<>>)
    => /\ (\A i \in 1..Len(ReprAttrs(Item)) : ReprAttrs(Item)[i].val[1] = "class")
            => /\ Resolved
               /\ Pushed = <<[kind |-> "EmptyStructHasSwiftReprClass",
                              struct_ident |-> Item.ident,
                              swift_repr_attr_value |-> "class"]>>
               /\ Shared.swift_repr = "Structure"
       /\ (\A i \in 1..Len(ReprAttrs(Item)) : ReprAttrs(Item)[i].val[1] = "struct")
            => /\ Resolved
               /\ "EmptyStructHasSwiftReprClass" \notin Kinds(Pushed)

C6_Witness ==
  /\ Resolved
  /\ calls = 2
  /\ Item.fields.format = "Unit"
  /\ Item.attrs = <<[key |-> "swift_repr", val |-> <<"class">>]>>
  /\ Len(errors) = 2
  /\ errors[1].kind = "EmptyStructHasSwiftReprClass"
  /\ errors[2].kind = "EmptyStructHasSwiftReprClass"
  /\ errors[1].struct_ident # errors[2].struct_ident

\* C7: an attribute whose key is neither swift_repr nor swift_name is not
\* fatal: an UnknownAnnotationKey error is pushed and the struct still
\* parses to a SharedStruct.
C7_UnknownKeyNotFatal ==
  (Finished
     /\ (\E i \in 1..Len(Item.attrs) : Item.attrs[i].key \notin {"swift_repr", "swift_name"})
     /\ (\A j \in 1..Len(Item.attrs) : Item.attrs[j].val # <<>>))
    => /\ Resolved
       /\ "UnknownAnnotationKey" \in Kinds(Pushed)

\* C8: the SharedStruct has as many fields as the struct, and its i-th field
\* has the ident (None for a tuple field) and the type of the struct's i-th
\* field, whatever the attributes and whatever was pushed.
C8_FieldsCopied ==
  Resolved
    => /\ Len(Shared.fields) = Len(Item.fields.list)
       /\ \A i \in 1..Len(Item.fields.list) :
            /\ Shared.fields[i].name = Item.fields.list[i].ident
            /\ Shared.fields[i].ty = Item.fields.list[i].ty

C8_Witness ==
  /\ Resolved
  /\ Len(Item.fields.list) = 2
  /\ Item.fields.list[1] # Item.fields.list[2]
  /\ Shared.fields[1].name = <<"baz">>
  /\ Shared.fields[2].name = <<"bar">>
  /\ Pushed # <<>>

\* The struct without its swift_name attributes.
WithoutNames(item) == [item EXCEPT !.attrs = SelectSeq(item.attrs, IsReprAttr)]

\* C9: swift_name of the SharedStruct is the literal of the struct's (last)
\* swift_name attribute, None when there is none; and the swift_name
\* attributes change neither swift_repr nor the errors pushed: both are
\* what the struct without its swift_name attributes gives.
C9_SwiftName ==
  Resolved
    => /\ Shared.swift_name =
            IF NameAttrs(Item) = <<>> THEN <<>>
            ELSE NameAttrs(Item)[Len(NameAttrs(Item))].val
       /\ LET other == Parse(WithoutNames(Item), errors_before)
          IN /\ other.ret.tag = "Ok"
             /\ Shared.swift_repr = other.ret.val[1].swift_repr
             /\ errors = other.errors

C9_Witness ==
  /\ Resolved
  /\ ~NoFields(Item)
  /\ Item.attrs = <<[key |-> "swift_name", val |-> <<"FfiFoo">>],
                    [key |-> "swift_repr", val |-> <<"class">>]>>
  /\ Shared.swift_name = <<"FfiFoo">>
  /\ Shared.swift_repr = "Class"

\* C10: the collector only grows at its end, and it always holds, struct
\* after struct in the order they were parsed, the errors each struct
\* pushes, in the order that struct pushes them.
C10_AppendOnly ==
  /\ [][IsPrefix(errors, errors')]_vars
  /\ [](errors = Flatten(groups))

C10_Witness ==
  /\ Resolved
  /\ calls = 2
  /\ Len(groups) = 2
  /\ Len(groups[1]) = 2
  /\ Len(groups[2]) = 2
  /\ groups[1][1].kind # groups[1][2].kind
  /\ groups[2][1].struct_ident # groups[1][1].struct_ident

====
